---- MODULE Spec2Model ----
(***************************************************************************)
(* icon-font-generator: the option-resolution and post-processing pipeline *)
(* of lib/index.js (generate and its helpers), the constants of            *)
(* lib/constants.js, the logging helpers of lib/utils.js and the codepoint *)
(* parser of lib/codepoint.js.                                             *)
(*                                                                         *)
(* A JavaScript object is a function from its keys to their values: a key  *)
(* that is absent is outside the DOMAIN.  A string that the code indexes   *)
(* character by character is a sequence of one-character strings.          *)
(***************************************************************************)
EXTENDS Integers, Sequences, FiniteSets, TLC

VARIABLES
  DEFAULT_OPTIONS,  \* the module-level object of lib/constants.js
  fs,               \* the output files that exist on disk
  call,             \* one record per generate() invocation
  phase,            \* position of the single-function harnesses
  arg,              \* argument handed to the function under test
  result            \* what it returned or threw

vars == <<DEFAULT_OPTIONS, fs, call, phase, arg, result>>

----------------------------------------------------------------------------
(* Bounds *)

NCalls == 2           \* generate() invocations in one process
MaxDense == 70000       \* code points 0..MaxDense are all tried
MaxTokenLen == 3      \* free-form codepoint tokens up to this length
MaxEscapeDigits == 7  \* digits after the backslash of an escape token
MaxItems == 2         \* elements of a JSON array in a codepoints file
MaxNumber == 3        \* a codepoints file that is one JSON number 0..MaxNumber
MaxSelectorLen == 4   \* characters of a selector
MaxRules == 2         \* icon rules of a stylesheet
MaxValueLen == 3      \* characters of a free-form option value

Calls == 1..NCalls

----------------------------------------------------------------------------
(* Objects *)

Range(s) == {s[i] : i \in DOMAIN s}

With(o, k, v) == [x \in DOMAIN o \cup {k} |-> IF x = k THEN v ELSE o[x]]

\* Object.assign(target, source): target is mutated and returned
ObjectAssign(target, source) ==
  [k \in DOMAIN target \cup DOMAIN source |->
     IF k \in DOMAIN source THEN source[k] ELSE target[k]]

\* truthiness of a string-valued option: present and not ''
IsSet(o, k) == k \in DOMAIN o /\ o[k] # ""

\* truthiness of a boolean-valued option
Flag(o, k) == k \in DOMAIN o /\ o[k] = TRUE

----------------------------------------------------------------------------
(* lib/constants.js *)

FONT_TYPES_v1 == <<"svg", "ttf", "woff", "eot">>

FONT_TYPES == <<"svg", "ttf", "woff", "woff2", "eot">>

InitialDefaults ==
  [fontName |-> "icons", css |-> TRUE, json |-> TRUE, html |-> TRUE,
   silent |-> TRUE, types |-> FONT_TYPES]

TEMPLATES == [html |-> "template/html.hbs", css |-> "template/css.hbs"]

OPTIONAL_PARAMS ==
  {"css", "html", "fontName", "classPrefix", "normalize", "round", "fixedWidth",
   "fontHeight", "descent", "centerHorizontally"}

----------------------------------------------------------------------------
(* lib/errors.js *)

NoError == [name |-> "", message |-> ""]

ValidationError(message) == [name |-> "ValidationError", message |-> message]

----------------------------------------------------------------------------
(* The part of the disk that generate only queries: what fs.exists,        *)
(* fs.stat and path.extname answer for the paths the options can name.     *)

DiskKind ==
  [A |-> "dir", B |-> "dir", afile |-> "file",
   css_hbs |-> "file", html_hbs |-> "file",
   cp_json |-> "file", bad_json |-> "file", chr_json |-> "file",
   inv_json |-> "file", cp_txt |-> "file",
   cpdir_json |-> "dir"]

exists(p) == p \in DOMAIN DiskKind

isDirectory(p) == DiskKind[p] = "dir"

isFile(p) == DiskKind[p] = "file"

extname(p) ==
  IF p \in {"cp_json", "bad_json", "chr_json", "inv_json", "cpdir_json", "nocp_json"}
    THEN ".json"
  ELSE IF p \in {"cp_txt"} THEN ".txt"
  ELSE IF p \in {"css_hbs", "html_hbs", "nocss_hbs", "nohtml_hbs"} THEN ".hbs"
  ELSE ""

----------------------------------------------------------------------------
(* validateOptions *)

validateOptions_htmlFirst(options) ==
  IF Len(options.paths) = 0 THEN "No paths specified"
  ELSE IF ~IsSet(options, "outputDir")
    THEN "Please specify an output directory with -o or --output"
  ELSE IF ~exists(options.outputDir) THEN "Output directory doesn't exist"
  ELSE IF ~isDirectory(options.outputDir) THEN "Output path must be a directory"
  ELSE IF IsSet(options, "htmlTemplate") /\ ~exists(options.htmlTemplate)
    THEN "HTML template not found"
  ELSE IF IsSet(options, "cssTemplate") /\ ~exists(options.cssTemplate)
    THEN "CSS template not found"
  ELSE IF IsSet(options, "codepoints")
    THEN IF ~exists(options.codepoints)
           THEN "Cannot find json file @ " \o options.codepoints \o "!"
         ELSE IF ~isFile(options.codepoints) \/ extname(options.codepoints) # ".json"
           THEN "Codepoints file must be JSON " \o options.codepoints
                  \o " is not a valid file."
         ELSE ""
  ELSE ""

\* the message of the ValidationError thrown, "" when none is thrown
validateOptions(options) ==
  IF Len(options.paths) = 0 THEN "No paths specified"
  ELSE IF ~IsSet(options, "outputDir")
    THEN "Please specify an output directory with -o or --output"
  ELSE IF ~exists(options.outputDir) THEN "Output directory doesn't exist"
  ELSE IF ~isDirectory(options.outputDir) THEN "Output path must be a directory"
  ELSE IF IsSet(options, "cssTemplate") /\ ~exists(options.cssTemplate)
    THEN "CSS template not found"
  ELSE IF IsSet(options, "htmlTemplate") /\ ~exists(options.htmlTemplate)
    THEN "HTML template not found"
  ELSE IF IsSet(options, "codepoints")
    THEN IF ~exists(options.codepoints)
           THEN "Cannot find json file @ " \o options.codepoints \o "!"
         ELSE IF ~isFile(options.codepoints) \/ extname(options.codepoints) # ".json"
           THEN "Codepoints file must be JSON " \o options.codepoints
                  \o " is not a valid file."
         ELSE ""
  ELSE ""

----------------------------------------------------------------------------
(* Strings.  An option value that is a string is a TLA+ string; Chars gives *)
(* its characters and Spell the string of a sequence of characters.         *)

RECURSIVE Spell(_)
Spell(chars) ==
  IF chars = <<>> THEN ""
  ELSE Spell(SubSeq(chars, 1, Len(chars) - 1)) \o chars[Len(chars)]

RECURSIVE Strings(_, _)
Strings(alphabet, n) ==
  IF n = 0 THEN {<<>>}
  ELSE LET shorter == Strings(alphabet, n - 1)
       IN  shorter \cup {s \o <<ch>> : s \in {t \in shorter : Len(t) = n - 1},
                                       ch \in alphabet}

ValueAlphabet == {"0", "1", ".", "-", "x"}

\* the strings that occur as option values.  An option value that is a
\* number is written as # followed by the text of the number, which tells
\* the number 10 ("#10") from the string '10' ("10").
Spellings ==
  Strings(ValueAlphabet, MaxValueLen) \cup
  {<<"i", "c", "o", "n", "s">>, <<"f", "2">>, <<"i", "c", "o", "n">>,
   <<"f", "a">>, <<"i">>, <<"s", "p", "a", "n">>, <<"b">>, <<"A">>, <<"B">>,
   <<"A", "/", "s", "t", "y", "l", "e", ".", "c", "s", "s">>,
   <<"A", "/", "c", "s", "s", "/", "s", "t", "y", "l", "e", ".", "c", "s", "s">>,
   <<"s", "t", "y", "l", "e", ".", "c", "s", "s">>,
   <<"B", "/", "s", "t", "y", "l", "e", ".", "c", "s", "s">>,
   <<"/", "f", "o", "n", "t", "s">>, <<".", ".", "/", "f">>,
   <<"s", "p", "a", "n", ".", "f", "o", "o", ".", "b", "a", "r">>,
   <<".", "m", "y", "-", "i">>, <<"i", ".", "c", "o", "l", "2">>,
   <<"h", "t", "m", "l">>, <<"c", "s", "s">>, <<"j", "s", "o", "n">>,
   <<"A", "/", "p", ".", "h", "t", "m", "l">>, <<"p", ".", "h", "t", "m", "l">>,
   <<"A", "/", "c", "s", "s", "/", "p", ".", "h", "t", "m", "l">>,
   <<"/", "p", ".", "h", "t", "m", "l">>,
   <<"5">>, <<"1", "5">>, <<"6", "1", "8", "0", "0">>,
   <<"1", ".", "2", "5">>, <<"-", "1", ".", "5">>, <<" ", "5">>,
   <<"5", "p", "x">>, <<"0", "x", "F", "1", "0", "1">>, <<"N", "a", "N">>,
   <<"I", "n", "f", "i", "n", "i", "t", "y">>,
   <<"-", "I", "n", "f", "i", "n", "i", "t", "y">>, <<"#", "1", "0">>,
   <<"#", "6", "1", "8", "0", "0">>}

CharsTable ==
  [string \in {Spell(t) : t \in Spellings} |->
     CHOOSE t \in Spellings : Spell(t) = string]

Chars(string) == CharsTable[string]

IsNumberValue(v) == Chars(v) # <<>> /\ Chars(v)[1] = "#"

\* the number whose text is the given string
Number(text) == "#" \o text

----------------------------------------------------------------------------
(* path (posix): a path is split at its slashes into segments *)

\* the index of the last slash of chars, 0 when there is none
LastSlash(chars) ==
  LET S == {k \in DOMAIN chars : chars[k] = "/"}
  IN  IF S = {} THEN 0 ELSE CHOOSE k \in S : \A j \in S : j <= k

RECURSIVE StripSlashes(_)
StripSlashes(chars) ==
  IF Len(chars) > 1 /\ chars[Len(chars)] = "/"
    THEN StripSlashes(SubSeq(chars, 1, Len(chars) - 1))
  ELSE chars

\* path.dirname
dirname(chars) ==
  LET p == StripSlashes(chars)
      k == LastSlash(p)
  IN  IF p = <<>> \/ (k = 0) THEN <<".">>
      ELSE IF p = <<"/">> THEN <<"/">>
      ELSE IF StripSlashes(SubSeq(p, 1, k)) = <<"/">> THEN <<"/">>
      ELSE StripSlashes(SubSeq(p, 1, k - 1))

RECURSIVE Split(_)
Split(chars) ==
  LET k == LastSlash(chars)
  IN  IF k = 0 THEN <<chars>>
      ELSE Split(SubSeq(chars, 1, k - 1)) \o <<SubSeq(chars, k + 1, Len(chars))>>

\* "." and empty segments dropped, ".." taking the segment before it away
RECURSIVE Normalize(_)
Normalize(segments) ==
  IF segments = <<>> THEN <<>>
  ELSE LET init == Normalize(SubSeq(segments, 1, Len(segments) - 1))
           last == segments[Len(segments)]
       IN  IF last \in {<<>>, <<".">>} THEN init
           ELSE IF last = <<".", ".">>
             THEN IF init = <<>> THEN <<>> ELSE SubSeq(init, 1, Len(init) - 1)
           ELSE init \o <<last>>

\* process.cwd() as segments below the root
Cwd == <<<<"w">>>>

\* path.resolve(chars): the segments of the absolute path
resolve(chars) ==
  IF chars # <<>> /\ chars[1] = "/" THEN Normalize(Split(chars))
  ELSE Normalize(Cwd \o Split(chars))

RECURSIVE JoinWith(_, _)
JoinWith(parts, separator) ==
  IF parts = <<>> THEN <<>>
  ELSE IF Len(parts) = 1 THEN parts[1]
  ELSE JoinWith(SubSeq(parts, 1, Len(parts) - 1), separator)
         \o separator \o parts[Len(parts)]

\* path.relative(from, to)
relative(from, to) ==
  LET f      == resolve(from)
      t      == resolve(to)
      same   == {k \in 0..Len(f) : k <= Len(t) /\ SubSeq(f, 1, k) = SubSeq(t, 1, k)}
      common == CHOOSE k \in same : \A j \in same : j <= k
  IN  JoinWith([k \in 1..(Len(f) - common) |-> <<".", ".">>]
                 \o SubSeq(t, common + 1, Len(t)), <<"/">>)

----------------------------------------------------------------------------
(* Characters and Number.parseInt *)

DecDigits == <<"0", "1", "2", "3", "4", "5", "6", "7", "8", "9">>

LowerHex == <<"a", "b", "c", "d", "e", "f">>

UpperHex == <<"A", "B", "C", "D", "E", "F">>

IndexOf(seq, x) == CHOOSE i \in DOMAIN seq : seq[i] = x

\* /\d/
IsDecDigit(ch) == ch \in Range(DecDigits)

\* /[\da-f]/i
IsHexDigit(ch) == ch \in Range(DecDigits) \cup Range(LowerHex) \cup Range(UpperHex)

\* /[\da-f]/ without the i flag
IsLowerHexDigit(ch) == ch \in Range(DecDigits) \cup Range(LowerHex)

\* the value of a digit character, -1 when it is no digit in any radix up to 16
DigitValue(ch) ==
  IF ch \in Range(DecDigits) THEN IndexOf(DecDigits, ch) - 1
  ELSE IF ch \in Range(LowerHex) THEN IndexOf(LowerHex, ch) + 9
  ELSE IF ch \in Range(UpperHex) THEN IndexOf(UpperHex, ch) + 9
  ELSE -1

\* String.prototype.charCodeAt(0) of a one-character string
CharCode(ch) ==
  IF ch \in Range(DecDigits) THEN 47 + IndexOf(DecDigits, ch)
  ELSE IF ch \in Range(UpperHex) THEN 64 + IndexOf(UpperHex, ch)
  ELSE IF ch \in Range(LowerHex) THEN 96 + IndexOf(LowerHex, ch)
  ELSE IF ch = "+" THEN 43
  ELSE IF ch = "-" THEN 45
  ELSE IF ch = "?" THEN 63
  ELSE IF ch = "G" THEN 71
  ELSE IF ch = "X" THEN 88
  ELSE IF ch = "\\" THEN 92
  ELSE IF ch = "g" THEN 103
  ELSE IF ch = "x" THEN 120
  ELSE 0

\* String.prototype.slice(n)
Slice(s, n) == SubSeq(s, n + 1, Len(s))

\* the number of leading characters of s that are digits in the radix
DigitPrefix(s, radix) ==
  LET P == {k \in 0..Len(s) : \A i \in 1..k : DigitValue(s[i]) \in 0..(radix - 1)}
  IN  CHOOSE k \in P : \A j \in P : j <= k

RECURSIVE DigitsValue(_, _, _)
DigitsValue(s, k, radix) ==
  IF k = 0 THEN 0 ELSE DigitsValue(s, k - 1, radix) * radix + DigitValue(s[k])

\* Number.parseInt(string, radix), radix 0 standing for an omitted radix:
\* an optional sign, an optional 0x prefix when the radix allows it, then the
\* longest run of digits; NaN when that run is empty
ParseInt(string, radix) ==
  LET neg  == Len(string) > 0 /\ string[1] = "-"
      s1   == IF Len(string) > 0 /\ string[1] \in {"+", "-"} THEN Slice(string, 1)
              ELSE string
      pre  == radix \in {0, 16} /\ Len(s1) >= 2 /\ s1[1] = "0" /\ s1[2] \in {"x", "X"}
      s2   == IF pre THEN Slice(s1, 2) ELSE s1
      r    == IF pre THEN 16 ELSE IF radix = 0 THEN 10 ELSE radix
      k    == DigitPrefix(s2, r)
      v    == DigitsValue(s2, k, r)
  IN  IF k = 0 THEN [nan |-> TRUE, value |-> 0]
      ELSE [nan |-> FALSE, value |-> IF neg THEN 0 - v ELSE v]

\* String(n) for a non-negative integer
RECURSIVE DecimalText(_)
DecimalText(n) ==
  IF n < 10 THEN <<DecDigits[n + 1]>>
  ELSE DecimalText(n \div 10) \o <<DecDigits[(n % 10) + 1]>>

----------------------------------------------------------------------------
(* parseFloat and the text of a number, for texts without an exponent *)

NaN == [kind |-> "NaN"]

Infinite(negative) == [kind |-> "Infinity", negative |-> negative]

\* a finite number: its sign, its integer part and the digits after the
\* decimal point, without the zeros at their end
Finite(negative, int, fraction) ==
  [kind |-> "finite", negative |-> negative, int |-> int, fraction |-> fraction]

RECURSIVE TrimStart(_)
TrimStart(s) == IF s # <<>> /\ s[1] = " " THEN TrimStart(Tail(s)) ELSE s

RECURSIVE TrimZeros(_)
TrimZeros(digits) ==
  IF digits # <<>> /\ digits[Len(digits)] = "0"
    THEN TrimZeros(SubSeq(digits, 1, Len(digits) - 1))
  ELSE digits

StartsWith(s, prefix) == Len(s) >= Len(prefix) /\ SubSeq(s, 1, Len(prefix)) = prefix

\* parseFloat(string): leading blanks are skipped, then the longest prefix
\* that is a decimal literal is read
ParseFloat(string) ==
  LET s0       == TrimStart(string)
      signed   == s0 # <<>> /\ s0[1] \in {"+", "-"}
      negative == s0 # <<>> /\ s0[1] = "-"
      s1       == IF signed THEN Tail(s0) ELSE s0
      ints     == DigitPrefix(s1, 10)
      s2       == Slice(s1, ints)
      point    == s2 # <<>> /\ s2[1] = "."
      fracs    == IF point THEN DigitPrefix(Tail(s2), 10) ELSE 0
  IN  IF StartsWith(s1, <<"I", "n", "f", "i", "n", "i", "t", "y">>)
        THEN Infinite(negative)
      ELSE IF ints = 0 /\ fracs = 0 THEN NaN
      ELSE Finite(negative, DigitsValue(s1, ints, 10),
                  IF point THEN TrimZeros(SubSeq(s2, 2, fracs + 1)) ELSE <<>>)

\* `${ number }`
NumberText(number) ==
  IF number.kind = "NaN" THEN <<"N", "a", "N">>
  ELSE IF number.kind = "Infinity"
    THEN (IF number.negative THEN <<"-">> ELSE <<>>)
           \o <<"I", "n", "f", "i", "n", "i", "t", "y">>
  ELSE (IF number.negative /\ (number.int # 0 \/ number.fraction # <<>>)
          THEN <<"-">> ELSE <<>>)
         \o DecimalText(number.int)
         \o (IF number.fraction # <<>> THEN <<".">> \o number.fraction ELSE <<>>)

----------------------------------------------------------------------------
(* lib/codepoint.js *)

isNumber_caseSensitive(value) ==
  \/ /\ Len(value) >= 3
     /\ value[1] = "0"
     /\ value[2] = "x"
     /\ \A i \in 3..Len(value) : IsLowerHexDigit(value[i])
  \/ /\ Len(value) >= 1
     /\ \A i \in 1..Len(value) : IsDecDigit(value[i])

\* value.match(/^((0x[\da-f]+)|(\d+))$/gi)
isNumber(value) ==
  \/ /\ Len(value) >= 3
     /\ value[1] = "0"
     /\ value[2] \in {"x", "X"}
     /\ \A i \in 3..Len(value) : IsHexDigit(value[i])
  \/ /\ Len(value) >= 1
     /\ \A i \in 1..Len(value) : IsDecDigit(value[i])

isUnicodeEscape_anyLength(value) ==
  /\ Len(value) >= 2
  /\ value[1] = "\\"
  /\ \A i \in 2..Len(value) : IsHexDigit(value[i])

\* value.match(/^\\[\da-f]{1,6}$/gi)
isUnicodeEscape(value) ==
  /\ Len(value) \in 2..7
  /\ value[1] = "\\"
  /\ \A i \in 2..Len(value) : IsHexDigit(value[i])

Returned(v) == [threw |-> FALSE, value |-> v]

Threw(e) == [threw |-> TRUE, error |-> e]

parseCodePoint_charFirst(codePoint, propName) ==
  IF Len(codePoint) = 1 THEN Returned(CharCode(codePoint[1]))
  ELSE IF isNumber(codePoint) THEN Returned(ParseInt(codePoint, 0).value)
  ELSE IF isUnicodeEscape(codePoint)
    THEN Returned(ParseInt(Slice(codePoint, 1), 16).value)
  ELSE Threw(ValidationError(
         "Codepoints map contains invalid code point for icon '" \o propName \o "'"))

parseCodePoint(codePoint, propName) ==
  IF isNumber(codePoint) THEN Returned(ParseInt(codePoint, 0).value)
  ELSE IF Len(codePoint) = 1 THEN Returned(CharCode(codePoint[1]))
  ELSE IF isUnicodeEscape(codePoint)
    THEN Returned(ParseInt(Slice(codePoint, 1), 16).value)
  ELSE Threw(ValidationError(
         "Codepoints map contains invalid code point for icon '" \o propName \o "'"))

----------------------------------------------------------------------------
(* parseSelector *)

\* a JavaScript value that may be undefined
Undefined == [undefined |-> TRUE]

Defined(v) == [undefined |-> FALSE, value |-> v]

LowerLetters ==
  {"a", "b", "c", "d", "e", "f", "g", "h", "i", "j", "k", "l", "m",
   "n", "o", "p", "q", "r", "s", "t", "u", "v", "w", "x", "y", "z"}

UpperLetters ==
  {"A", "B", "C", "D", "E", "F", "G", "H", "I", "J", "K", "L", "M",
   "N", "O", "P", "Q", "R", "S", "T", "U", "V", "W", "X", "Y", "Z"}

\* [a-zA-Z0-9='"[\]_-]
IsTagChar(ch) ==
  ch \in LowerLetters \cup UpperLetters \cup Range(DecDigits)
           \cup {"=", "'", "\"", "[", "]", "_", "-"}

\* [a-zA-Z0-1_-]
IsClassChar(ch) ==
  ch \in LowerLetters \cup UpperLetters \cup {"0", "1", "_", "-"}

\* the positions of s that hold a character of each class
TagPositions(s) == {pos \in DOMAIN s : IsTagChar(s[pos])}

ClassPositions(s) == {pos \in DOMAIN s : IsClassChar(s[pos])}

\* the end of the longest run of characters of s from position i on that are
\* all in the class (i - 1 when there is none), inClass being the positions of
\* s that hold a character of the class
RunEnd(s, i, inClass) ==
  LET P == {k \in (i - 1)..Len(s) : \A j \in i..k : j \in inClass}
  IN  CHOOSE k \in P : \A j \in P : j <= k

\* selector.match(/^[a-zA-Z0-9='"[\]_-]*/g): the one match at the start of the
\* string, which may be empty
TagMatch(selector) == <<SubSeq(selector, 1, RunEnd(selector, 1, TagPositions(selector)))>>

\* selector.match(/\.[a-zA-Z0-1_-]*/g) from position i on: the matches from
\* left to right, each a dot and the run after it
RECURSIVE ClassNamesMatch(_, _)
ClassNamesMatch(selector, i) ==
  IF i > Len(selector) THEN <<>>
  ELSE IF selector[i] # "." THEN ClassNamesMatch(selector, i + 1)
  ELSE LET e == RunEnd(selector, i + 1, ClassPositions(selector))
       IN  <<SubSeq(selector, i, e)>> \o ClassNamesMatch(selector, e + 1)

parseSelector(selector) ==
  LET string          == IF selector.undefined THEN <<>> ELSE selector.value
      tagMatch        == TagMatch(string)
      classNamesMatch == ClassNamesMatch(string, 1)
  IN  [tag        |-> IF tagMatch # <<>> THEN Defined(tagMatch[1]) ELSE Undefined,
       classNames |-> [k \in DOMAIN classNamesMatch |-> Slice(classNamesMatch[k], 1)]]

----------------------------------------------------------------------------
(* lib/utils.js *)

\* log(options, message): what console.log receives
log(options, message) == IF Flag(options, "silent") THEN <<>> ELSE <<message>>

\* logOutput(options, parts)
logOutput(options, parts) == log(options, <<"Generated">> \o parts)

----------------------------------------------------------------------------
(* Helpers of generate *)

\* The codepoints files on disk, each as what JSON.parse makes of its text: a
\* SyntaxError (json is FALSE) or a value that is null, a boolean, a number, a
\* string, an array or an object.  The values inside an array or an object
\* are strings.
Text(kind, value) == [json |-> TRUE, value |-> [kind |-> kind, value |-> value]]

FileContent ==
  [cp_json  |-> Text("object", [home |-> <<"0", "x", "f", "1", "0", "1">>,
                                user |-> <<"6", "5">>]),
   chr_json |-> Text("object", [home |-> <<"A">>,
                                user |-> <<"\\", "f", "1", "0", "2">>]),
   inv_json |-> Text("object", [home |-> <<"0", "x", "f", "1", "0", "1">>,
                                user |-> <<"?", "?">>]),
   bad_json |-> [json |-> FALSE]]

\* fsAsync.readFile
readFile(filepath) == FileContent[filepath]

\* index.js 151-163, on the content that was read.  The loop visits the keys
\* of an object and the indices of an array; null, a boolean and a number
\* have nothing to visit, and the assignments to the indices of a string do
\* nothing (the module is not in strict mode).
getCodepointsMapOf(content) ==
  IF ~content.json
    THEN Threw(ValidationError("Codepoints map is invalid JSON"))
  ELSE LET codepointsMap == content.value
       IN  IF codepointsMap.kind \in {"object", "array"}
             THEN Returned([kind  |-> codepointsMap.kind,
                            value |-> [propName \in DOMAIN codepointsMap.value |->
                                         ParseInt(codepointsMap.value[propName], 0)]])
           ELSE Returned(codepointsMap)

getCodepointsMap(filepath) == getCodepointsMapOf(readFile(filepath))

\* the characters of the absolute path with the given segments
Absolute(segments) == <<"/">> \o JoinWith(segments, <<"/">>)

getResolvedPath_defaultOnly(options, type) ==
  Absolute(resolve(Chars(options.outputDir) \o <<"/">>
                     \o Chars(options.fontName) \o <<".">> \o Chars(type)))

\* the characters of the path at which the file of the given type is written
getResolvedPath(options, type) ==
  LET explicitPathKey == type \o "Path"
  IN  IF IsSet(options, explicitPathKey)
        THEN Absolute(resolve(Chars(options[explicitPathKey])))
      ELSE Absolute(resolve(Chars(options.outputDir) \o <<"/">>
                              \o Chars(options.fontName) \o <<".">> \o Chars(type)))

DefaultStartCodepoint == 61697

getCssFontsUrl_fromCssFile(options) ==
  IF IsSet(options, "cssFontsUrl") THEN options.cssFontsUrl
  ELSE IF IsSet(options, "cssPath")
    THEN Spell(relative(Chars(options.cssPath), Chars(options.outputDir)))
  ELSE "./"

getCssFontsUrl(options) ==
  IF IsSet(options, "cssFontsUrl") THEN options.cssFontsUrl
  ELSE IF IsSet(options, "cssPath")
    THEN Spell(relative(dirname(Chars(options.cssPath)), Chars(options.outputDir)))
  ELSE "./"

Null == [null |-> TRUE]

templateOptions_optionFirst(options) ==
  LET selector == IF "baseSelector" \in DOMAIN options
                    THEN Defined(Chars(options.baseSelector)) ELSE Undefined
      parsed   == parseSelector(selector)
      tag      == IF parsed.tag.undefined THEN <<>> ELSE parsed.tag.value
  IN  [baseTag             |-> IF IsSet(options, "baseTag") THEN options.baseTag
                               ELSE IF tag # <<>> THEN Spell(tag)
                               ELSE "i",
       baseSelector        |-> IF IsSet(options, "baseSelector")
                                 THEN Defined(options.baseSelector) ELSE Null,
       baseClassNames      |-> Spell(JoinWith(parsed.classNames, <<" ">>)),
       classPrefix         |-> (IF IsSet(options, "classPrefix")
                                  THEN options.classPrefix ELSE "icon") \o "-",
       htmlCssRelativePath |-> Spell(relative(dirname(getResolvedPath(options, "html")),
                                              getResolvedPath(options, "css")))]

\* index.js 66 and 78-87; an undefined or empty tag is falsy
templateOptions(options) ==
  LET selector == IF "baseSelector" \in DOMAIN options
                    THEN Defined(Chars(options.baseSelector)) ELSE Undefined
      parsed   == parseSelector(selector)
      tag      == IF parsed.tag.undefined THEN <<>> ELSE parsed.tag.value
  IN  [baseTag             |-> IF tag # <<>> THEN Spell(tag)
                               ELSE IF IsSet(options, "baseTag") THEN options.baseTag
                               ELSE "i",
       baseSelector        |-> IF IsSet(options, "baseSelector")
                                 THEN Defined(options.baseSelector) ELSE Null,
       baseClassNames      |-> Spell(JoinWith(parsed.classNames, <<" ">>)),
       classPrefix         |-> (IF IsSet(options, "classPrefix")
                                  THEN options.classPrefix ELSE "icon") \o "-",
       htmlCssRelativePath |-> Spell(relative(dirname(getResolvedPath(options, "html")),
                                              getResolvedPath(options, "css")))]

\* the optional parameters that are switches: their values are booleans
FlagParams == {"css", "html", "normalize", "fixedWidth", "centerHorizontally"}

\* `${ options[key] }`
TextOf(options, key) ==
  IF key \in FlagParams
    THEN IF options[key] THEN <<"t", "r", "u", "e">> ELSE <<"f", "a", "l", "s", "e">>
  ELSE IF IsNumberValue(options[key]) THEN Tail(Chars(options[key]))
  ELSE Chars(options[key])

\* the value the loop over OPTIONAL_PARAMS leaves in options[key]
Normalised(options, key) ==
  LET text == TextOf(options, key)
  IN  IF NumberText(ParseFloat(text)) = text THEN Number(Spell(text))
      ELSE options[key]

\* the options object after getGeneratorConfig: the loop writes the parsed
\* numbers back into it
NormalisedOptions(options) ==
  [key \in DOMAIN options |->
     IF key \in OPTIONAL_PARAMS THEN Normalised(options, key) ELSE options[key]]

\* false for '', 0 and NaN
Truthy(v) == v \notin {"", Number("0"), Number("NaN")}

getGeneratorConfig(options) ==
  LET copied == {key \in OPTIONAL_PARAMS : key \in DOMAIN options}
      fixed  == {"files", "dest", "types", "startCodepoint", "cssFontsUrl",
                 "cssTemplate", "htmlTemplate", "templateOptions"}
                  \cup (IF "codepointsMap" \in DOMAIN options THEN {"codepoints"} ELSE {})
                  \cup (IF "cssPath" \in DOMAIN options THEN {"cssDest"} ELSE {})
                  \cup (IF "htmlPath" \in DOMAIN options THEN {"htmlDest"} ELSE {})
  IN  [key \in fixed \cup copied |->
         IF key = "files" THEN options.paths
         ELSE IF key = "dest" THEN options.outputDir
         ELSE IF key = "types" THEN options.types
         ELSE IF key = "codepoints" THEN options.codepointsMap
         ELSE IF key = "startCodepoint"
           THEN IF "startCodepoint" \in DOMAIN options /\ Truthy(options.startCodepoint)
                  THEN options.startCodepoint
                ELSE Number(Spell(DecimalText(DefaultStartCodepoint)))
         ELSE IF key = "cssDest" THEN options.cssPath
         ELSE IF key = "cssFontsUrl" THEN getCssFontsUrl(options)
         ELSE IF key = "templateOptions" THEN templateOptions(options)
         ELSE IF key = "htmlDest" THEN options.htmlPath
         ELSE IF key = "cssTemplate"
           THEN IF IsSet(options, "cssTemplate") THEN options.cssTemplate
                ELSE TEMPLATES.css
         ELSE IF key = "htmlTemplate"
           THEN IF IsSet(options, "htmlTemplate") THEN options.htmlTemplate
                ELSE TEMPLATES.html
         ELSE Normalised(options, key)]

\* the formats deleteUnspecifiedTypes visits, in loop order
UnspecifiedTypes(types) ==
  SelectSeq(FONT_TYPES, LAMBDA ext : ext \notin Range(types))

\* the path generateJson writes
jsonPath(options) ==
  IF IsSet(options, "jsonPath") THEN <<options.jsonPath>>
  ELSE <<options.outputDir, options.fontName, "json">>

\* the lines logReport hands to console.log
logReport(options) ==
  LET fonts == [i \in DOMAIN options.types |->
                  <<"Generated", options.outputDir, options.fontName, options.types[i]>>]
      quiet == Flag(options, "silent")
  IN  (IF quiet THEN <<>> ELSE fonts)
      \o (IF Flag(options, "html")
            THEN logOutput(options, <<Spell(getResolvedPath(options, "html"))>>)
          ELSE <<>>)
      \o (IF Flag(options, "css")
            THEN logOutput(options, <<Spell(getResolvedPath(options, "css"))>>)
          ELSE <<>>)
      \o (IF Flag(options, "json")
            THEN logOutput(options, <<Spell(getResolvedPath(options, "json"))>>)
          ELSE <<>>)
      \o log(options, <<"Done">>)

----------------------------------------------------------------------------
(* generateJson: the stylesheet text is a sequence of pieces.  A piece is a *)
(* character the pattern tells apart (a hyphen, a double quote, a carriage  *)
(* return, a line feed, a blank, a digit), one of the literals the pattern  *)
(* spells out (:before and content: "), or a run of other characters.       *)

CR == "\r"

LF == "\n"

BEFORE == ":before"

CONTENT == "content: \""

\* . matches everything but a line terminator
IsDot(piece) == piece \notin {CR, LF}

\* \s
IsSpace(piece) == piece \in {" ", "\t", CR, LF}

DotPositions(s) == {pos \in DOMAIN s : IsDot(s[pos])}

SpacePositions(s) == {pos \in DOMAIN s : IsSpace(s[pos])}

Last(S) == CHOOSE k \in S : \A j \in S : j <= k

NoMatch == [found |-> FALSE]

CSS_PARSE_REGEX_crlfOnly(css, i) ==
  LET eol1   == RunEnd(css, i + 1, DotPositions(css))
      before == {b \in (i + 1)..eol1 : css[b] = BEFORE}
      lf     == eol1 + 2
      quote  == RunEnd(css, lf + 1, SpacePositions(css)) + 1
      eol2   == RunEnd(css, quote + 1, DotPositions(css))
      close  == {q \in (quote + 1)..eol2 : css[q] = "\""}
  IN  IF /\ css[i] = "-"
         /\ before # {}
         /\ lf <= Len(css)
         /\ css[lf - 1] = CR
         /\ css[lf] = LF
         /\ quote <= Len(css)
         /\ css[quote] = CONTENT
         /\ close # {}
        THEN [found |-> TRUE,
              name  |-> SubSeq(css, i + 1, Last(before) - 1),
              code  |-> SubSeq(css, quote + 1, Last(close) - 1),
              end   |-> Last(close)]
      ELSE NoMatch

\* /-(.*):before.*\r?\n\s*content: "(.*)"/ tried at position i: each .* and
\* the \s* take the longest run that lets the rest match
CSS_PARSE_REGEX(css, i) ==
  LET eol1   == RunEnd(css, i + 1, DotPositions(css))
      before == {b \in (i + 1)..eol1 : css[b] = BEFORE}
      lf     == IF eol1 + 1 <= Len(css) /\ css[eol1 + 1] = CR THEN eol1 + 2
                ELSE eol1 + 1
      quote  == RunEnd(css, lf + 1, SpacePositions(css)) + 1
      eol2   == RunEnd(css, quote + 1, DotPositions(css))
      close  == {q \in (quote + 1)..eol2 : css[q] = "\""}
  IN  IF /\ css[i] = "-"
         /\ before # {}
         /\ lf <= Len(css)
         /\ css[lf] = LF
         /\ quote <= Len(css)
         /\ css[quote] = CONTENT
         /\ close # {}
        THEN [found |-> TRUE,
              name  |-> SubSeq(css, i + 1, Last(before) - 1),
              code  |-> SubSeq(css, quote + 1, Last(close) - 1),
              end   |-> Last(close)]
      ELSE NoMatch

\* a property name that is an array index: the decimal text of an integer
\* below 2^32 - 1, which every such text of up to nine digits is
IsArrayIndex(name) ==
  /\ Len(name) \in 1..9
  /\ \A k \in DOMAIN name : IsDecDigit(name[k])
  /\ Len(name) = 1 \/ name[1] # "0"

\* whether the key a comes before the key b in the order an object lists its
\* own keys when b is added after a: array indices in ascending order first
KeyBefore(a, b) ==
  IF IsArrayIndex(b)
    THEN IsArrayIndex(a)
           /\ DigitsValue(a, Len(a), 10) < DigitsValue(b, Len(b), 10)
  ELSE TRUE

\* map[name] = code, the object being the sequence of its entries in the
\* order JSON.stringify writes them
MapSet(map, name, code) ==
  IF \E k \in DOMAIN map : map[k].name = name
    THEN [k \in DOMAIN map |->
            IF map[k].name = name THEN [name |-> name, code |-> code] ELSE map[k]]
  ELSE LET ahead == SelectSeq(map, LAMBDA entry : KeyBefore(entry.name, name))
           after == SelectSeq(map, LAMBDA entry : ~KeyBefore(entry.name, name))
       IN  ahead \o <<[name |-> name, code |-> code]>> \o after

\* css.replace(CSS_PARSE_REGEX, (match, name, code) => map[name] = code):
\* the matches from position i on, from left to right, none overlapping
RECURSIVE Replace(_, _, _)
Replace(css, i, map) ==
  IF i > Len(css) THEN map
  ELSE LET m == CSS_PARSE_REGEX(css, i)
       IN  IF m.found THEN Replace(css, m.end + 1, MapSet(map, m.name, m.code))
           ELSE Replace(css, i + 1, map)

\* the object generateJson hands to JSON.stringify
JsonMap(css) == Replace(css, 1, <<>>)

----------------------------------------------------------------------------
(* The compilation engine (webfonts-generator), seen from generate: it     *)
(* either fails with an error of its own or writes, under config.dest, the *)
(* requested formats or every format it knows, and the css and html files. *)

EngineTypes == {"svg", "ttf", "woff", "woff2", "eot"}

EngineErrors ==
  {[name |-> "Error", message |-> "engine: cannot read glyph"],
   [name |-> "TypeError", message |-> "engine: bad config"]}

EngineOutput(config, everyFormat) ==
  {<<config.dest, config.fontName, ext>> :
     ext \in IF everyFormat THEN EngineTypes ELSE Range(config.types)}
  \cup (IF Flag(config, "css") THEN {<<config.dest, config.fontName, "css">>} ELSE {})
  \cup (IF Flag(config, "html") THEN {<<config.dest, config.fontName, "html">>} ELSE {})

----------------------------------------------------------------------------
(* The options a caller hands to generate: the required ones alone, one of *)
(* them missing, one optional option on top of them, and two calls that    *)
(* set several options at once.                                            *)

Minimal == [paths |-> <<"a.svg", "b.svg">>, outputDir |-> "A"]

OptionInputs ==
  {Minimal, With(Minimal, "outputDir", "B"), With(Minimal, "paths", <<>>),
   [paths |-> <<"a.svg", "b.svg">>], With(Minimal, "fontName", "f2")}
  \cup {With(Minimal, "types", t) : t \in {<<>>, <<"svg">>, <<"svg", "ttf">>}}
  \cup {With(Minimal, k, FALSE) : k \in {"css", "html", "json", "silent"}}
  \cup {With(Minimal, "codepoints", f) :
          f \in {"cp_json", "bad_json", "chr_json", "inv_json"}}
  \cup {With(With(Minimal, "types", <<"svg">>), "silent", FALSE),
        [paths |-> <<"a.svg", "b.svg">>, outputDir |-> "B", fontName |-> "f2",
         types |-> <<"svg", "ttf">>, json |-> FALSE]}

\* font files left in output directory A by earlier work; B starts empty
StaleFonts == {<<"A", n, ext>> : n \in {"icons", "f2"}, ext \in EngineTypes}

----------------------------------------------------------------------------
(* generate: one invocation per call slot.  pc is the await the invocation *)
(* is suspended at; trace, logs and the fields below them record what the  *)
(* invocation did.                                                         *)

Idle ==
  [pc |-> "idle", given |-> [paths |-> <<>>], merged |-> [paths |-> <<>>],
   fsBefore |-> {}, config |-> [files |-> <<>>], error |-> NoError,
   raised |-> NoError, trace |-> <<>>, logs |-> <<>>, todo |-> <<>>,
   cleanup |-> [types |-> <<>>], used |-> <<>>, deleted |-> {}, written |-> {},
   engineCalls |-> 0]

NoneInFlight == \A d \in Calls : call[d].pc \in {"idle", "done", "failed"}

\* the option values a later step reads from the options object
Using(step, options) ==
  [step |-> step, outputDir |-> options.outputDir, fontName |-> options.fontName,
   types |-> options.types, json |-> options.json]

Started(c, given, options) ==
  [call[c] EXCEPT
     !.given = given, !.merged = options, !.fsBefore = fs,
     !.trace = <<"validate">>,
     !.logs = log(options, <<"Generating font kit from "
                               \o ToString(Len(options.paths)) \o " SVG icons">>)]

Validated(c, given, options) ==
  LET msg == validateOptions(options)
  IN  IF msg = "" THEN [Started(c, given, options) EXCEPT !.pc = "validated"]
      ELSE [Started(c, given, options) EXCEPT
              !.pc = "failed", !.error = ValidationError(msg)]

\* index.js 29-37: the options are merged into DEFAULT_OPTIONS, the start line
\* is logged and validateOptions runs to its end
generate(c, given) ==
  /\ call[c].pc = "idle"
  /\ \A d \in 1..(c - 1) : call[d].pc # "idle"
  /\ LET options == ObjectAssign(DEFAULT_OPTIONS, given)
     IN  /\ DEFAULT_OPTIONS' = options
         /\ call' = [call EXCEPT ![c] = Validated(c, given, options)]
  /\ UNCHANGED <<fs, phase, arg, result>>

AwaitCodepointsMap_afterEngine(c) ==
  /\ call[c].pc = "validated"
  /\ IsSet(DEFAULT_OPTIONS, "codepoints")
  /\ LET r   == getCodepointsMap(DEFAULT_OPTIONS.codepoints)
         out == EngineOutput(getGeneratorConfig(DEFAULT_OPTIONS), FALSE)
     IN  IF r.threw
           THEN /\ call' = [call EXCEPT ![c].pc = "failed", ![c].error = r.error,
                                        ![c].engineCalls = @ + 1,
                                        ![c].written = @ \cup out,
                                        ![c].trace = @ \o <<"engine", "parse">>]
                /\ fs' = fs \cup out
                /\ UNCHANGED DEFAULT_OPTIONS
         ELSE /\ call' = [call EXCEPT ![c].pc = "parsed",
                                      ![c].trace = @ \o <<"parse">>]
              /\ DEFAULT_OPTIONS' = With(DEFAULT_OPTIONS, "codepointsMap", r.value)
              /\ UNCHANGED fs
  /\ UNCHANGED <<phase, arg, result>>

\* index.js 39-41: options.codepointsMap = await getCodepointsMap(...)
AwaitCodepointsMap(c) ==
  /\ call[c].pc = "validated"
  /\ IsSet(DEFAULT_OPTIONS, "codepoints")
  /\ LET r == getCodepointsMap(DEFAULT_OPTIONS.codepoints)
     IN  IF r.threw
           THEN /\ call' = [call EXCEPT ![c].pc = "failed", ![c].error = r.error,
                                        ![c].trace = @ \o <<"parse">>]
                /\ UNCHANGED DEFAULT_OPTIONS
         ELSE /\ call' = [call EXCEPT ![c].pc = "parsed",
                                      ![c].trace = @ \o <<"parse">>]
              /\ DEFAULT_OPTIONS' = With(DEFAULT_OPTIONS, "codepointsMap", r.value)
  /\ UNCHANGED <<fs, phase, arg, result>>

\* index.js 44-45: the config is built and handed to the engine
InvokeEngine(c) ==
  /\ \/ call[c].pc = "parsed"
     \/ call[c].pc = "validated" /\ ~IsSet(DEFAULT_OPTIONS, "codepoints")
  /\ call' = [call EXCEPT ![c].pc = "engine",
                          ![c].config = getGeneratorConfig(DEFAULT_OPTIONS),
                          ![c].engineCalls = @ + 1,
                          ![c].trace = @ \o <<"engine">>]
  /\ DEFAULT_OPTIONS' = NormalisedOptions(DEFAULT_OPTIONS)
  /\ UNCHANGED <<fs, phase, arg, result>>

\* what runs when the engine's promise resolves: deleteUnspecifiedTypes reads
\* outputDir, fontName and types and loops to its first await
EnterCleanup(c, out) ==
  LET todo == UnspecifiedTypes(DEFAULT_OPTIONS.types)
  IN  [call EXCEPT
         ![c].pc = "cleanup",
         ![c].written = @ \cup out,
         ![c].cleanup = [outputDir |-> DEFAULT_OPTIONS.outputDir,
                         fontName |-> DEFAULT_OPTIONS.fontName,
                         types |-> DEFAULT_OPTIONS.types],
         ![c].used = @ \o <<Using("cleanup", DEFAULT_OPTIONS)>>,
         ![c].todo = todo,
         ![c].trace = @ \o <<"engine.done", "cleanup">>
                        \o (IF todo = <<>> THEN <<"cleanup.done">> ELSE <<>>)]

EngineResolves_cleanupIfJson(c, everyFormat) ==
  /\ call[c].pc = "engine"
  /\ LET out == EngineOutput(call[c].config, everyFormat)
     IN  /\ fs' = fs \cup out
         /\ call' = IF Flag(DEFAULT_OPTIONS, "json") THEN EnterCleanup(c, out)
                    ELSE [call EXCEPT ![c].pc = "cleanup", ![c].todo = <<>>,
                                      ![c].written = @ \cup out,
                                      ![c].trace = @ \o <<"engine.done">>]
  /\ UNCHANGED <<DEFAULT_OPTIONS, phase, arg, result>>

\* index.js 45-48
EngineResolves(c, everyFormat) ==
  /\ call[c].pc = "engine"
  /\ LET out == EngineOutput(call[c].config, everyFormat)
     IN  /\ fs' = fs \cup out
         /\ call' = EnterCleanup(c, out)
  /\ UNCHANGED <<DEFAULT_OPTIONS, phase, arg, result>>

EngineRejects_thenCleanup(c, e) ==
  /\ call[c].pc = "engine"
  /\ call' = [call EXCEPT ![c].pc = "failed", ![c].error = e, ![c].raised = e,
                          ![c].deleted = {f \in fs :
                             /\ f[1] = DEFAULT_OPTIONS.outputDir
                             /\ f[2] = DEFAULT_OPTIONS.fontName
                             /\ f[3] \in Range(UnspecifiedTypes(DEFAULT_OPTIONS.types))},
                          ![c].trace = @ \o <<"engine.failed", "cleanup">>]
  /\ fs' = fs \ {<<DEFAULT_OPTIONS.outputDir, DEFAULT_OPTIONS.fontName, ext>> :
                   ext \in Range(UnspecifiedTypes(DEFAULT_OPTIONS.types))}
  /\ UNCHANGED <<DEFAULT_OPTIONS, phase, arg, result>>

\* index.js 45: the engine's promise rejects and generate rethrows
EngineRejects(c, e) ==
  /\ call[c].pc = "engine"
  /\ call' = [call EXCEPT ![c].pc = "failed", ![c].error = e, ![c].raised = e,
                          ![c].trace = @ \o <<"engine.failed">>]
  /\ UNCHANGED <<DEFAULT_OPTIONS, fs, phase, arg, result>>

deleteUnspecifiedTypes_noExistsCheck(c) ==
  /\ call[c].pc = "cleanup"
  /\ call[c].todo # <<>>
  /\ LET ext      == Head(call[c].todo)
         filepath == <<call[c].cleanup.outputDir, call[c].cleanup.fontName, ext>>
         rest     == Tail(call[c].todo)
     IN  IF filepath \in fs
           THEN /\ fs' = fs \ {filepath}
                /\ call' = [call EXCEPT
                              ![c].todo = rest,
                              ![c].deleted = @ \cup {filepath},
                              ![c].trace = @ \o (IF rest = <<>> THEN <<"cleanup.done">>
                                                 ELSE <<>>)]
         ELSE /\ fs' = fs
              /\ call' = [call EXCEPT
                            ![c].pc = "failed",
                            ![c].error = [name |-> "Error", message |-> "ENOENT"]]
  /\ UNCHANGED <<DEFAULT_OPTIONS, phase, arg, result>>

\* index.js 243-251: one iteration that reaches the awaits; the file is
\* unlinked when fsAsync.exists finds it and left alone otherwise
deleteUnspecifiedTypes(c) ==
  /\ call[c].pc = "cleanup"
  /\ call[c].todo # <<>>
  /\ LET ext      == Head(call[c].todo)
         filepath == <<call[c].cleanup.outputDir, call[c].cleanup.fontName, ext>>
         rest     == Tail(call[c].todo)
     IN  /\ fs' = IF filepath \in fs THEN fs \ {filepath} ELSE fs
         /\ call' = [call EXCEPT
                       ![c].todo = rest,
                       ![c].deleted = IF filepath \in fs THEN @ \cup {filepath} ELSE @,
                       ![c].trace = @ \o (IF rest = <<>> THEN <<"cleanup.done">>
                                          ELSE <<>>)]
  /\ UNCHANGED <<DEFAULT_OPTIONS, phase, arg, result>>

\* index.js 51-53
generateJson(c) ==
  /\ call[c].pc = "cleanup"
  /\ call[c].todo = <<>>
  /\ Flag(DEFAULT_OPTIONS, "json")
  /\ fs' = fs \cup {jsonPath(DEFAULT_OPTIONS)}
  /\ call' = [call EXCEPT ![c].pc = "json",
                          ![c].written = @ \cup {jsonPath(DEFAULT_OPTIONS)},
                          ![c].used = @ \o <<Using("json", DEFAULT_OPTIONS)>>,
                          ![c].trace = @ \o <<"json">>]
  /\ UNCHANGED <<DEFAULT_OPTIONS, phase, arg, result>>

\* index.js 56
Report(c) ==
  /\ \/ call[c].pc = "json"
     \/ call[c].pc = "cleanup" /\ call[c].todo = <<>> /\ ~Flag(DEFAULT_OPTIONS, "json")
  /\ call' = [call EXCEPT ![c].pc = "done",
                          ![c].logs = @ \o logReport(DEFAULT_OPTIONS),
                          ![c].used = @ \o <<Using("report", DEFAULT_OPTIONS)>>,
                          ![c].trace = @ \o <<"report">>]
  /\ UNCHANGED <<DEFAULT_OPTIONS, fs, phase, arg, result>>

Step(c) ==
  \/ AwaitCodepointsMap(c)
  \/ InvokeEngine(c)
  \/ \E everyFormat \in BOOLEAN : EngineResolves(c, everyFormat)
  \/ \E e \in EngineErrors : EngineRejects(c, e)
  \/ deleteUnspecifiedTypes(c)
  \/ generateJson(c)
  \/ Report(c)

----------------------------------------------------------------------------
(* Specifications *)

InitPipeline ==
  /\ DEFAULT_OPTIONS = InitialDefaults
  /\ fs = StaleFonts
  /\ call = [c \in Calls |-> Idle]
  /\ phase = "unused"
  /\ arg = <<>>
  /\ result = <<>>

\* generate is called again only when the previous invocation has settled
Next ==
  \E c \in Calls :
    \/ \E given \in OptionInputs : NoneInFlight /\ generate(c, given)
    \/ Step(c)

Spec == InitPipeline /\ [][Next]_vars

\* generate may be called while earlier invocations are suspended at an await
NextConc ==
  \E c \in Calls :
    \/ \E given \in OptionInputs : generate(c, given)
    \/ Step(c)

SpecConc == InitPipeline /\ [][NextConc]_vars

----------------------------------------------------------------------------
(* validateOptions on its own: every combination of the options it reads   *)

Optional(S, k, V) == S \cup {With(o, k, v) : o \in S, v \in V}

ValidationInputs ==
  Optional(
    Optional(
      Optional(
        Optional({[paths |-> p] : p \in {<<>>, <<"a.svg">>}},
                 "outputDir", {"A", "nodir", "afile"}),
        "cssTemplate", {"css_hbs", "nocss_hbs"}),
      "htmlTemplate", {"html_hbs", "nohtml_hbs"}),
    "codepoints", {"cp_json", "nocp_json", "cp_txt", "cpdir_json"})

InitValidate ==
  /\ DEFAULT_OPTIONS = InitialDefaults
  /\ fs = {}
  /\ call = [c \in Calls |-> Idle]
  /\ phase = "called"
  /\ arg \in ValidationInputs
  /\ result = ""

CallValidateOptions ==
  /\ phase = "called"
  /\ phase' = "returned"
  /\ result' = validateOptions(arg)
  /\ UNCHANGED <<DEFAULT_OPTIONS, fs, call, arg>>

SpecValidate == InitValidate /\ [][CallValidateOptions]_vars

----------------------------------------------------------------------------
(* parseCodePoint on its own *)

HexDigitsOf(upper) == DecDigits \o (IF upper THEN UpperHex ELSE LowerHex)

\* n.toString(16), in lower or upper case
RECURSIVE HexText(_, _)
HexText(n, upper) ==
  IF n < 16 THEN <<HexDigitsOf(upper)[n + 1]>>
  ELSE HexText(n \div 16, upper) \o <<HexDigitsOf(upper)[(n % 16) + 1]>>

MaxCodePoint == 17 * (16 ^ 4) - 1

\* every code point up to MaxDense, and the ones around each change of length
CodePointSamples ==
  {n \in (0..MaxDense)
         \cup UNION {{16 ^ k - 1, 16 ^ k, 10 ^ k - 1, 10 ^ k} : k \in 1..6}
         \cup {MaxCodePoint - 1, MaxCodePoint} :
     n <= MaxCodePoint}

TokenAlphabet == {"0", "5", "x", "f", "A", "\\", "?", "-"}

EscapeAlphabet == {"0", "1", "4", "F"}

Input(codePoint, propName, form, n) ==
  [codePoint |-> codePoint, propName |-> propName, form |-> form, n |-> n]

InitCodePoint ==
  /\ DEFAULT_OPTIONS = InitialDefaults
  /\ fs = {}
  /\ call = [c \in Calls |-> Idle]
  /\ phase = "called"
  /\ \/ \E n \in CodePointSamples, u \in BOOLEAN :
          arg = Input(<<"0", "x">> \o HexText(n, u), "home", "hex", n)
     \/ \E n \in CodePointSamples :
          arg = Input(DecimalText(n), "home", "decimal", n)
     \/ \E t \in Strings(TokenAlphabet, MaxTokenLen) :
          arg = Input(t, "home", "token", 0)
     \/ \E t \in Strings(EscapeAlphabet, MaxEscapeDigits) :
          arg = Input(<<"\\">> \o t, "user", "token", 0)
  /\ result = Returned(0)

CallParseCodePoint ==
  /\ phase = "called"
  /\ phase' = "returned"
  /\ result' = parseCodePoint(arg.codePoint, arg.propName)
  /\ UNCHANGED <<DEFAULT_OPTIONS, fs, call, arg>>

SpecCodePoint == InitCodePoint /\ [][CallParseCodePoint]_vars

----------------------------------------------------------------------------
(* getCodepointsMap on its own: every kind of content a codepoints file can *)
(* have                                                                     *)

CodepointTokens ==
  {<<"6", "5">>, <<"0", "x", "f", "1", "0", "1">>, <<"A">>,
   <<"\\", "f", "1", "0", "1">>, <<"?", "?">>, <<>>}

JsonArrays == UNION {[1..n -> CodepointTokens] : n \in 0..MaxItems}

JsonObjects == UNION {[K -> CodepointTokens] : K \in SUBSET {"home", "user"}}

InitCodepointsMap ==
  /\ DEFAULT_OPTIONS = InitialDefaults
  /\ fs = {}
  /\ call = [c \in Calls |-> Idle]
  /\ phase = "called"
  /\ \/ arg = [json |-> FALSE]
     \/ arg = Text("null", "null")
     \/ \E b \in BOOLEAN : arg = Text("boolean", b)
     \/ \E n \in 0..MaxNumber : arg = Text("number", n)
     \/ \E t \in Strings({"a", "5"}, MaxItems) : arg = Text("string", t)
     \/ \E a \in JsonArrays : arg = Text("array", a)
     \/ \E o \in JsonObjects : arg = Text("object", o)
  /\ result = Returned(0)

CallGetCodepointsMap ==
  /\ phase = "called"
  /\ phase' = "returned"
  /\ result' = getCodepointsMapOf(arg)
  /\ UNCHANGED <<DEFAULT_OPTIONS, fs, call, arg>>

SpecCodepointsMap == InitCodepointsMap /\ [][CallGetCodepointsMap]_vars

----------------------------------------------------------------------------
(* parseSelector on its own *)

SelectorAlphabet == {"i", "s", "B", "2", "1", ".", "=", "_", " "}

InitSelector ==
  /\ DEFAULT_OPTIONS = InitialDefaults
  /\ fs = {}
  /\ call = [c \in Calls |-> Idle]
  /\ phase = "called"
  /\ \/ arg = Undefined
     \/ \E t \in Strings(SelectorAlphabet, MaxSelectorLen) : arg = Defined(t)
     \/ arg = Defined(<<"s", "p", "a", "n", ".", "f", "o", "o", ".", "b", "a", "r">>)
     \/ arg = Defined(<<"i", ".", "c", "o", "l", "2">>)
  /\ result = [tag |-> Undefined, classNames |-> <<>>]

CallParseSelector ==
  /\ phase = "called"
  /\ phase' = "returned"
  /\ result' = parseSelector(arg)
  /\ UNCHANGED <<DEFAULT_OPTIONS, fs, call, arg>>

SpecSelector == InitSelector /\ [][CallParseSelector]_vars

----------------------------------------------------------------------------
(* The extraction of generateJson on its own: stylesheets made of icon      *)
(* rules, as the css template writes them, with either line ending.         *)

IconPrefixes == {<<"icon">>, <<"my", "-", "icon">>}

IconNames == {<<"home">>, <<"user">>, <<"arrow", "-", "left">>, <<"7">>, <<"1", "0">>}

IconCodes == {"f101", "f102"}

IconRules == [name : IconNames, code : IconCodes]

EndOfLine == {<<LF>>, <<CR, LF>>}

\* .<prefix>-<name>:before {
\*     content: "\<code>";
\* }
RuleText(prefix, rule, eol) ==
  <<".">> \o prefix \o <<"-">> \o rule.name \o <<BEFORE, " ", "{">> \o eol
  \o <<"\t", CONTENT, "\\", rule.code, "\"", ";">> \o eol \o <<"}">> \o eol \o eol

RECURSIVE StyleSheet(_, _, _)
StyleSheet(prefix, rules, eol) ==
  IF rules = <<>> THEN <<>>
  ELSE RuleText(prefix, Head(rules), eol) \o StyleSheet(prefix, Tail(rules), eol)

InitJson ==
  /\ DEFAULT_OPTIONS = InitialDefaults
  /\ fs = {}
  /\ call = [c \in Calls |-> Idle]
  /\ phase = "called"
  /\ \E prefix \in IconPrefixes, eol \in EndOfLine, n \in 1..MaxRules :
       \E rules \in [1..n -> IconRules] :
         arg = [css |-> StyleSheet(prefix, rules, eol), prefix |-> prefix,
                rules |-> rules, eol |-> eol]
  /\ result = <<>>

CallGenerateJson ==
  /\ phase = "called"
  /\ phase' = "returned"
  /\ result' = JsonMap(arg.css)
  /\ UNCHANGED <<DEFAULT_OPTIONS, fs, call, arg>>

SpecJson == InitJson /\ [][CallGenerateJson]_vars

----------------------------------------------------------------------------
(* getGeneratorConfig on its own, on options that are merged and validated *)

Defaulted == ObjectAssign(InitialDefaults, Minimal)

\* every way to give, or not to give, each of the listed options
RECURSIVE Choices(_, _)
Choices(base, given) ==
  IF given = <<>> THEN {base}
  ELSE LET rest == Choices(base, Tail(given))
       IN  rest \cup {With(o, Head(given).key, v) : o \in rest, v \in Head(given).values}

CssOptions ==
  Choices(Defaulted,
          <<[key |-> "outputDir", values |-> {"B"}],
            [key |-> "cssFontsUrl", values |-> {"", "/fonts", "../f"}],
            [key |-> "cssPath",
             values |-> {"", "A/style.css", "A/css/style.css", "style.css",
                         "B/style.css"}]>>)

SelectorOptions ==
  Choices(Defaulted,
          <<[key |-> "baseSelector",
             values |-> {"", "span.foo.bar", ".my-i", "i.col2", "b"}],
            [key |-> "baseTag", values |-> {"", "span"}],
            [key |-> "classPrefix", values |-> {"", "fa", "5"}]>>)

PathOptions ==
  Choices(Defaulted,
          <<[key |-> "outputDir", values |-> {"B"}],
            [key |-> "fontName", values |-> {"f2"}],
            [key |-> "cssPath",
             values |-> {"", "A/style.css", "A/css/style.css", "style.css",
                         "B/style.css", "../f", "/fonts"}],
            [key |-> "htmlPath",
             values |-> {"", "A/p.html", "p.html", "A/css/p.html", "/p.html"}]>>)

\* the options a command line or a caller gives as text or as numbers
NumericParams == {"fontName", "classPrefix", "round", "fontHeight", "descent"}

NumericValues ==
  {Spell(t) : t \in Strings(ValueAlphabet, MaxValueLen)}
    \cup {"5", "15", "61800", "1.25", "-1.5", " 5", "5px", "0xF101", "NaN",
          "Infinity", "-Infinity", "icons", Number("10"), Number("61800")}

NumericOptions ==
  {With(Defaulted, key, v) :
     key \in NumericParams \cup {"startCodepoint"}, v \in NumericValues}
    \cup {With(Defaulted, key, v) : key \in FlagParams, v \in BOOLEAN}

InitConfig ==
  /\ DEFAULT_OPTIONS = InitialDefaults
  /\ fs = {}
  /\ call = [c \in Calls |-> Idle]
  /\ phase = "called"
  /\ arg \in CssOptions \cup SelectorOptions \cup NumericOptions \cup PathOptions
  /\ result = [files |-> <<>>]

CallGetGeneratorConfig ==
  /\ phase = "called"
  /\ phase' = "returned"
  /\ result' = getGeneratorConfig(arg)
  /\ UNCHANGED <<DEFAULT_OPTIONS, fs, call, arg>>

SpecConfig == InitConfig /\ [][CallGetGeneratorConfig]_vars

----------------------------------------------------------------------------
(* C1, C2, C3: the order of the steps and what a failure leaves behind *)

IsPrefix(s, t) == Len(s) <= Len(t) /\ s = SubSeq(t, 1, Len(s))

\* the steps of a run that succeeds, for the options the run works on
StepsOf(options) ==
  <<"validate">>
  \o (IF IsSet(options, "codepoints") THEN <<"parse">> ELSE <<>>)
  \o <<"engine", "engine.done", "cleanup", "cleanup.done">>
  \o (IF Flag(options, "json") THEN <<"json">> ELSE <<>>)
  \o <<"report">>

\* C1: a run that has not failed has gone through a prefix of: validation,
\* codepoints parsing (when codepoints is set), the engine invocation and its
\* completion, cleanup and its completion, JSON writing (when json is set),
\* report; a finished run has gone through all of it, with one engine
\* invocation, and cleanup is there whatever the css, html and json flags are.
C1_StepsInOrder ==
  \A c \in Calls :
    /\ call[c].pc \notin {"idle", "failed"} =>
         IsPrefix(call[c].trace, StepsOf(call[c].merged))
    /\ call[c].pc = "done" =>
         /\ call[c].trace = StepsOf(call[c].merged)
         /\ call[c].engineCalls = 1

\* a run with json switched off has finished, and its cleanup deleted a file
C1_Witness ==
  \E c \in Calls :
    /\ call[c].pc = "done"
    /\ ~Flag(call[c].merged, "json")
    /\ call[c].deleted # {}
    /\ call[c].trace =
         <<"validate", "engine", "engine.done", "cleanup", "cleanup.done", "report">>

\* C2: a run that failed with a ValidationError has not invoked the engine and
\* has written and deleted nothing: the files on disk are those from before it.
C2_ValidationErrorLeavesDiskAlone ==
  \A c \in Calls :
    (call[c].pc = "failed" /\ call[c].error.name = "ValidationError"
       /\ \A d \in Calls : d > c => call[d].pc = "idle") =>
      /\ call[c].engineCalls = 0
      /\ call[c].written = {}
      /\ call[c].deleted = {}
      /\ fs = call[c].fsBefore

\* the codepoints file of a run was not JSON, after an earlier run changed the disk
C2_Witness ==
  \E c \in Calls :
    /\ call[c].pc = "failed"
    /\ call[c].error = ValidationError("Codepoints map is invalid JSON")
    /\ fs # StaleFonts
    /\ fs = call[c].fsBefore

\* C3: when the engine fails, the run fails with the engine's own error and
\* nothing after the engine runs: no file is deleted, no JSON file is written,
\* and nothing is logged after the start line.
C3_EngineFailurePropagates ==
  \A c \in Calls :
    call[c].raised # NoError =>
      /\ call[c].pc = "failed"
      /\ call[c].error = call[c].raised
      /\ call[c].deleted = {}
      /\ call[c].written = {}
      /\ call[c].trace[Len(call[c].trace)] = "engine.failed"
      /\ \A i \in DOMAIN call[c].logs :
           call[c].logs[i][1] \notin {"Generated", "Done"}

\* the engine failed in a run that logs, with a stale unrequested file on disk
C3_Witness ==
  \E c \in Calls :
    /\ call[c].raised \in EngineErrors
    /\ call[c].error = call[c].raised
    /\ Len(call[c].logs) = 1
    /\ "woff" \notin Range(call[c].merged.types)
    /\ <<call[c].merged.outputDir, call[c].merged.fontName, "woff">> \in fs

----------------------------------------------------------------------------
(* C5, C6, C7, C8: the options a run works on *)

KnownFormats == {"svg", "ttf", "woff", "woff2", "eot"}

\* C5: when a run has just succeeded, no file <outputDir>/<fontName>.<format>
\* exists for a known format outside its types, and every file the engine
\* wrote for a format of its types exists.
C5_OnlyRequestedFormatsRemain ==
  \A c \in Calls :
    (call[c].pc = "done" /\ \A d \in Calls : d > c => call[d].pc = "idle") =>
      LET o == call[c].merged
      IN  /\ \A ext \in KnownFormats \ Range(o.types) :
               <<o.outputDir, o.fontName, ext>> \notin fs
          /\ \A ext \in Range(o.types) :
               <<o.outputDir, o.fontName, ext>> \in call[c].written =>
                 <<o.outputDir, o.fontName, ext>> \in fs

\* types was svg and ttf: the engine wrote every format over stale files, and
\* only svg and ttf are left
C5_Witness ==
  \E c \in Calls :
    /\ call[c].pc = "done"
    /\ call[c].merged.types = <<"svg", "ttf">>
    /\ {<<"A", "icons", ext>> : ext \in KnownFormats} \subseteq call[c].written
    /\ {<<"A", "icons", "woff">>, <<"A", "icons", "woff2">>, <<"A", "icons", "eot">>}
         \subseteq call[c].deleted
    /\ {ext \in KnownFormats : <<"A", "icons", ext>> \in fs} = {"svg", "ttf"}

\* C6: the types handed to the engine and read by cleanup are a non-empty
\* subset of the five known formats, and they are all five when the caller
\* passed no types.
C6_TypesNonEmpty ==
  \A c \in Calls :
    /\ call[c].engineCalls > 0 =>
         /\ call[c].config.types # <<>>
         /\ Range(call[c].config.types) \subseteq KnownFormats
    /\ (call[c].engineCalls > 0 /\ "types" \notin DOMAIN call[c].given) =>
         Range(call[c].config.types) = KnownFormats

\* C7: the options a run works on are its caller's options over the
\* documented defaults, whatever earlier runs were given.
C7_OptionsDependOnOwnCallOnly ==
  \A c \in Calls :
    call[c].pc # "idle" =>
      LET fresh == ObjectAssign(InitialDefaults, call[c].given)
      IN  \A k \in DOMAIN call[c].merged :
            /\ k \in DOMAIN fresh \cup {"codepointsMap"}
            /\ k \in DOMAIN fresh => call[c].merged[k] = fresh[k]

\* C8: what a run's cleanup, JSON writing and report read as outputDir,
\* fontName, types and json is what its options held when it started.
C8_OwnOptionsUnderInterleaving ==
  \A c \in Calls :
    \A i \in DOMAIN call[c].used :
      /\ call[c].used[i].outputDir = call[c].merged.outputDir
      /\ call[c].used[i].fontName = call[c].merged.fontName
      /\ call[c].used[i].types = call[c].merged.types
      /\ call[c].used[i].json = call[c].merged.json

----------------------------------------------------------------------------
(* C4 *)

\* the eight checks of the options validator, each stated on its own
Checks(o) ==
  <<[violated |-> Len(o.paths) = 0, message |-> "No paths specified"],
    [violated |-> ~IsSet(o, "outputDir"),
     message  |-> "Please specify an output directory with -o or --output"],
    [violated |-> ~(IsSet(o, "outputDir") /\ o.outputDir \in DOMAIN DiskKind),
     message  |-> "Output directory doesn't exist"],
    [violated |-> ~(IsSet(o, "outputDir") /\ o.outputDir \in DOMAIN DiskKind
                      /\ DiskKind[o.outputDir] = "dir"),
     message  |-> "Output path must be a directory"],
    [violated |-> IsSet(o, "cssTemplate") /\ o.cssTemplate \notin DOMAIN DiskKind,
     message  |-> "CSS template not found"],
    [violated |-> IsSet(o, "htmlTemplate") /\ o.htmlTemplate \notin DOMAIN DiskKind,
     message  |-> "HTML template not found"],
    [violated |-> IsSet(o, "codepoints") /\ o.codepoints \notin DOMAIN DiskKind,
     message  |-> IF IsSet(o, "codepoints")
                    THEN "Cannot find json file @ " \o o.codepoints \o "!" ELSE ""],
    [violated |-> IsSet(o, "codepoints")
                    /\ ~(/\ o.codepoints \in DOMAIN DiskKind
                         /\ DiskKind[o.codepoints] = "file"
                         /\ extname(o.codepoints) = ".json"),
     message  |-> IF IsSet(o, "codepoints")
                    THEN "Codepoints file must be JSON " \o o.codepoints
                           \o " is not a valid file."
                  ELSE ""]>>

ViolatedChecks(o) == {i \in DOMAIN Checks(o) : Checks(o)[i].violated}

\* C4: validateOptions fails with the message of the earliest violated check of
\* the fixed order (paths, outputDir given, outputDir on disk, outputDir a
\* directory, css template, html template, codepoints file found, codepoints a
\* regular .json file), and succeeds when no check is violated.
C4_FirstViolationReported ==
  phase = "returned" =>
    LET bad == ViolatedChecks(arg)
    IN  IF bad = {} THEN result = ""
        ELSE \E i \in bad : /\ \A j \in bad : i <= j
                            /\ result = Checks(arg)[i].message

\* several checks are violated at once and the earliest one is reported
C4_Witness ==
  /\ phase = "returned"
  /\ {5, 6, 7, 8} \subseteq ViolatedChecks(arg)
  /\ result = "CSS template not found"

----------------------------------------------------------------------------
(* C9, C10 *)

\* C9: parseCodePoint of the 0x-prefixed hexadecimal text of N, and of the
\* decimal text of N, returns N, for N from 0 to 0x10FFFF; a single decimal
\* digit is read as a number.
C9_RoundTrip ==
  (phase = "returned" /\ arg.form \in {"hex", "decimal"}) =>
    (~result.threw /\ result.value = arg.n)

\* the one-digit decimal text "7" came back as the number 7
C9_Witness ==
  /\ phase = "returned"
  /\ arg.form = "decimal"
  /\ arg.codePoint = <<"7">>
  /\ ~result.threw
  /\ result.value = 7

\* the value of a run of hexadecimal digits, by position
HexValue(digits) ==
  LET weigh[i \in 0..Len(digits)] ==
        IF i = 0 THEN 0 ELSE 16 * weigh[i - 1] + DigitValue(digits[i])
  IN  weigh[Len(digits)]

IsEscapeToken(t) ==
  /\ Len(t) >= 2
  /\ Len(t) <= 7
  /\ t[1] = "\\"
  /\ \A i \in 2..Len(t) : DigitValue(t[i]) >= 0

\* C10: the shapes are tried in the order numeric literal, single character,
\* CSS unicode escape: one decimal digit gives its numeric value, any other
\* single character gives its character code, and a backslash followed by 1 to
\* 6 hexadecimal digits gives the value of those digits in base 16.
C10_ShapesInOrder ==
  phase = "returned" =>
    LET t == arg.codePoint
    IN  /\ (Len(t) = 1 /\ DigitValue(t[1]) \in 0..9) =>
             (~result.threw /\ result.value = DigitValue(t[1]))
        /\ (Len(t) = 1 /\ DigitValue(t[1]) \notin 0..9) =>
             (~result.threw /\ result.value = CharCode(t[1]))
        /\ IsEscapeToken(t) =>
             (~result.threw /\ result.value = HexValue(Slice(t, 1)))

\* the escape \0041 came back as 0x41
C10_Witness ==
  /\ phase = "returned"
  /\ arg.codePoint = <<"\\", "0", "0", "4", "1">>
  /\ ~result.threw
  /\ result.value = 65

----------------------------------------------------------------------------
(* C11 *)

\* 0x or 0X and then hexadecimal digits, or decimal digits alone
IsNumericLiteral(t) ==
  \/ /\ Len(t) >= 3
     /\ t[1] = "0"
     /\ t[2] \in {"x", "X"}
     /\ \A i \in 3..Len(t) : DigitValue(t[i]) \in 0..15
  \/ /\ Len(t) >= 1
     /\ \A i \in 1..Len(t) : DigitValue(t[i]) \in 0..9

InvalidCodePoint(iconName) ==
  ValidationError("Codepoints map contains invalid code point for icon '"
                    \o iconName \o "'")

\* C11: a token that is no numeric literal, not exactly one character and no
\* CSS unicode escape makes parseCodePoint throw the ValidationError "Codepoints
\* map contains invalid code point for icon '<iconName>'" with the icon name it
\* was given, and nothing is returned.
C11_OtherShapesFail ==
  (phase = "returned" /\ ~IsNumericLiteral(arg.codePoint)
     /\ Len(arg.codePoint) # 1 /\ ~IsEscapeToken(arg.codePoint)) =>
    /\ result.threw
    /\ DOMAIN result = {"threw", "error"}
    /\ result.error = InvalidCodePoint(arg.propName)

\* a backslash followed by seven hexadecimal digits was rejected for icon user
C11_Witness ==
  /\ phase = "returned"
  /\ arg.codePoint = <<"\\", "0", "0", "1", "F", "4", "4", "1">>
  /\ result = Threw(InvalidCodePoint("user"))

----------------------------------------------------------------------------
(* C12, C13 *)

\* the codepoint map parseCodePoint gives for the values of a JSON object
TokenParsed(props) == [p \in DOMAIN props |-> parseCodePoint(props[p], p)]

\* C12: when codepoints names a file holding a JSON object, the map handed to
\* the engine has, for every property, the code point parseCodePoint gives
\* for its value (the character code of a one-character value, the base-16
\* value of a \XXXX escape), and a run whose file has a value parseCodePoint
\* rejects fails with that ValidationError without invoking the engine.
C12_EngineGetsParsedTokens ==
  \A c \in Calls :
    (/\ IsSet(call[c].merged, "codepoints")
     /\ Len(call[c].trace) >= 2
     /\ call[c].trace[2] = "parse"
     /\ readFile(call[c].merged.codepoints).json
     /\ readFile(call[c].merged.codepoints).value.kind = "object") =>
      LET parsed == TokenParsed(readFile(call[c].merged.codepoints).value.value)
          bad    == {p \in DOMAIN parsed : parsed[p].threw}
      IN  /\ call[c].engineCalls > 0 =>
                /\ bad = {}
                /\ \A p \in DOMAIN parsed :
                     call[c].config.codepoints.value[p]
                       = [nan |-> FALSE, value |-> parsed[p].value]
          /\ bad # {} =>
                /\ call[c].pc = "failed"
                /\ call[c].engineCalls = 0
                /\ \E p \in bad : call[c].error = parsed[p].error

\* C13: getCodepointsMap throws the ValidationError "Codepoints map is invalid
\* JSON" for every content that is not a JSON object: text that is not JSON,
\* and JSON that is null, a boolean, a number, a string or an array.
C13_NonObjectIsInvalidJson ==
  (phase = "returned" /\ ~(arg.json /\ arg.value.kind = "object")) =>
    result = Threw(ValidationError("Codepoints map is invalid JSON"))

----------------------------------------------------------------------------
(* C14, C15 *)

\* C14: parseSelector of the empty string, and of no argument, returns tag
\* undefined and an empty classNames list.
C14_EmptySelector ==
  (phase = "returned" /\ (arg.undefined \/ arg.value = <<>>)) =>
    result = [tag |-> Undefined, classNames |-> <<>>]

\* the '.identifier' tokens of t from position i on, the identifier being the
\* run of tag characters after the dot, without the dot
RECURSIVE DotIdentifiers(_, _)
DotIdentifiers(t, i) ==
  IF i > Len(t) THEN <<>>
  ELSE IF t[i] # "." THEN DotIdentifiers(t, i + 1)
  ELSE LET e == RunEnd(t, i + 1, TagPositions(t))
       IN  <<SubSeq(t, i + 1, e)>> \o DotIdentifiers(t, e + 1)

\* C15: for a non-empty selector, tag is the leading run of characters of
\* [a-zA-Z0-9='"[\]_-] and classNames are, in order, the '.identifier' tokens
\* without their dot, the identifiers being read with that same character
\* class ('span.foo.bar' gives span and foo, bar; 'i.col2' gives col2).
C15_TagAndClassNames ==
  (phase = "returned" /\ ~arg.undefined /\ arg.value # <<>>) =>
    /\ result.tag = Defined(SubSeq(arg.value, 1, RunEnd(arg.value, 1, TagPositions(arg.value))))
    /\ result.classNames = DotIdentifiers(arg.value, 1)

----------------------------------------------------------------------------
(* C16 *)

KeyOf(prefix, rule) ==
  LET class == prefix \o <<"-">> \o rule.name
      first == CHOOSE k \in DOMAIN class :
                 class[k] = "-" /\ \A j \in 1..(k - 1) : class[j] # "-"
  IN  SubSeq(class, first + 1, Len(class))

----------------------------------------------------------------------------
(* C17 *)

\* the files the cleanup of a run may delete
Unrequested(c) ==
  LET o == call[c].merged
  IN  {<<o.outputDir, o.fontName, ext>> : ext \in KnownFormats \ Range(o.types)}

\* C17: a file disappears from the disk only in the cleanup of a run and only
\* if it is <outputDir>/<fontName>.<format> for a known format outside the
\* run's types (never the file of a requested format, never any other file),
\* and a step of the cleanup never fails: where the file of an unrequested
\* format does not exist, the step goes on and the disk stays as it is.
C17_CleanupOnlyUnrequested ==
  [][/\ fs \ fs' \subseteq UNION {Unrequested(c) : c \in {d \in Calls : call[d].pc = "cleanup"}}
     /\ \A c \in Calls :
          call[c].pc = "cleanup" =>
            /\ call'[c].pc # "failed"
            /\ (call[c].todo # <<>>
                  /\ <<call[c].merged.outputDir, call[c].merged.fontName,
                        Head(call[c].todo)>> \notin fs
                  /\ call'[c].todo # call[c].todo) =>
                 (fs' = fs /\ call'[c].deleted = call[c].deleted)]_vars

\* a finished run whose cleanup deleted the stale ttf file and found no woff
\* file to delete, its svg file being on disk
C17_Witness ==
  \E c \in Calls :
    /\ call[c].pc = "done"
    /\ call[c].merged.types = <<"svg">>
    /\ call[c].deleted = {<<"A", "icons", "ttf">>}
    /\ <<"A", "icons", "woff">> \notin call[c].fsBefore \cup call[c].written
    /\ <<"A", "icons", "svg">> \in fs

----------------------------------------------------------------------------
(* C18 *)

\* an option that was given: present and not the empty string
Given(o, k) == k \in DOMAIN o /\ o[k] # ""

\* the explicit cssFontsUrl, else the relative path from the directory of
\* cssPath to outputDir, else './'
CssFontsUrlRule(o) ==
  IF Given(o, "cssFontsUrl") THEN o.cssFontsUrl
  ELSE IF Given(o, "cssPath")
    THEN Spell(relative(dirname(Chars(o.cssPath)), Chars(o.outputDir)))
  ELSE "./"

\* C18 as stated: cssFontsUrl follows the rule, and it is never undefined
\* and never empty.
C18_CssFontsUrlNeverEmpty ==
  phase = "returned" =>
    /\ "cssFontsUrl" \in DOMAIN result
    /\ result.cssFontsUrl = CssFontsUrlRule(arg)
    /\ result.cssFontsUrl # ""

\* C18 amended: cssFontsUrl follows the rule and is never undefined; it is
\* the empty string exactly when no cssFontsUrl is given and the directory of
\* the given cssPath is outputDir.
C18_CssFontsUrlRule ==
  phase = "returned" =>
    /\ "cssFontsUrl" \in DOMAIN result
    /\ result.cssFontsUrl = CssFontsUrlRule(arg)
    /\ result.cssFontsUrl = "" <=>
         /\ ~Given(arg, "cssFontsUrl")
         /\ Given(arg, "cssPath")
         /\ resolve(dirname(Chars(arg.cssPath))) = resolve(Chars(arg.outputDir))

\* css written to A/css/style.css with the fonts in A: the url is ..
C18_Witness ==
  /\ phase = "returned"
  /\ "cssFontsUrl" \notin DOMAIN arg
  /\ "cssPath" \in DOMAIN arg
  /\ arg.cssPath = "A/css/style.css"
  /\ arg.outputDir = "A"
  /\ result.cssFontsUrl = ".."

----------------------------------------------------------------------------
(* C19 *)

\* the leading run of tag characters of a selector
TagPortion(selector) == SubSeq(selector, 1, RunEnd(selector, 1, TagPositions(selector)))

OptionOr(o, k, default) == IF Given(o, k) THEN o[k] ELSE default

----------------------------------------------------------------------------
(* C20 *)

\* a string whose text equals the text of its float parse
NumericLooking(options, key) ==
  /\ key \notin FlagParams
  /\ ~IsNumberValue(options[key])
  /\ NumberText(ParseFloat(Chars(options[key]))) = Chars(options[key])

\* C20: every option value handed to the engine that is a numeric-looking
\* string has been replaced by the corresponding number, for each defined
\* optional styling parameter and for every other option value copied into the
\* config, such as a given startCodepoint; the values that are not
\* numeric-looking are passed through unchanged.
C20_NumericValuesAreNumbers ==
  phase = "returned" =>
    \A key \in (OPTIONAL_PARAMS \cup {"startCodepoint"}) \cap DOMAIN arg :
      (key = "startCodepoint" => Truthy(arg[key])) =>
        result[key] = IF NumericLooking(arg, key) THEN Number(arg[key])
                      ELSE arg[key]

----------------------------------------------------------------------------
(* C21 *)

\* the segments of the resolved output of a type: the explicit <type>Path
\* when set, <outputDir>/<fontName>.<type> otherwise
OutputPath(o, type) ==
  IF Given(o, type \o "Path") THEN resolve(Chars(o[type \o "Path"]))
  ELSE resolve(Chars(o.outputDir) \o <<"/">> \o Chars(o.fontName)
                 \o <<".">> \o Chars(type))

DirectoryOf(segments) == SubSeq(segments, 1, Len(segments) - 1)

\* the relative path between two absolute locations: the shortest path made
\* of steps up followed by steps down that leads from the one to the other
RelativePath(from, to) ==
  LET paths == {p \in {[i \in 1..k |-> <<".", ".">>]
                         \o SubSeq(to, Len(from) - k + 1, Len(to)) :
                       k \in {j \in 0..Len(from) : Len(from) - j <= Len(to)}} :
                  Normalize(from \o p) = to}
  IN  CHOOSE p \in paths : \A other \in paths : Len(p) <= Len(other)

\* C21 as stated: htmlCssRelativePath is the relative path from the directory
\* of the resolved HTML output to the directory of the resolved CSS output,
\* and designates that directory itself when both are in the same directory.
C21_RelativeToCssDirectory ==
  phase = "returned" =>
    LET html == OutputPath(arg, "html")
        css  == OutputPath(arg, "css")
    IN  result.templateOptions.htmlCssRelativePath
          = Spell(JoinWith(RelativePath(DirectoryOf(html), DirectoryOf(css)),
                           <<"/">>))

\* C21 amended: htmlCssRelativePath is the relative path from the directory
\* of the resolved HTML output to the resolved CSS output file itself, and it
\* is the name of the CSS file when both outputs are in the same directory.
C21_RelativeToCssFile ==
  phase = "returned" =>
    LET html == OutputPath(arg, "html")
        css  == OutputPath(arg, "css")
        path == result.templateOptions.htmlCssRelativePath
    IN  /\ path = Spell(JoinWith(RelativePath(DirectoryOf(html), css), <<"/">>))
        /\ (css # <<>> /\ DirectoryOf(html) = DirectoryOf(css))
             => path = Spell(css[Len(css)])

\* the page written to A/p.html and the stylesheet to B/style.css
C21_Witness ==
  /\ phase = "returned"
  /\ "htmlPath" \in DOMAIN arg
  /\ "cssPath" \in DOMAIN arg
  /\ arg.htmlPath = "A/p.html"
  /\ arg.cssPath = "B/style.css"
  /\ result.templateOptions.htmlCssRelativePath = "../B/style.css"

====
